---- MODULE Spec2Model ----
(***************************************************************************)
(* State-machine model of the arXiv crawler                                *)
(* (src/services/core/core/crawlers/arxiv.py).                             *)
(*                                                                         *)
(* Text is modelled as a sequence of tokens; a token is a string that the  *)
(* code's string operations treat as a unit ("Title:", " ", "\n", ...).    *)
(* An Optional value is a set with at most one element: None is {} and     *)
(* Some(x) is {x}.  A dict is modelled by its set of keys.                 *)
(***************************************************************************)
EXTENDS Integers, Sequences, FiniteSets, TLC

\* ------------------------------------------------------------------ bounds
MaxRetries == 3
MaxDelay == 2
MaxCrawlRetries == 2
MaxSections == 2
MaxDt == 2
MaxCrawl == 1

\* ------------------------------------------------------------ Optional
None == {}
Some(x) == {x}

\* ------------------------------------------------------------ text
Whitespace == {" ", "\n"}

RECURSIVE LStrip(_)
LStrip(s) == IF s # <<>> /\ Head(s) \in Whitespace THEN LStrip(Tail(s)) ELSE s

RECURSIVE RStrip(_)
RStrip(s) ==
    IF s # <<>> /\ s[Len(s)] \in Whitespace
    THEN RStrip(SubSeq(s, 1, Len(s) - 1))
    ELSE s

\* str.strip()
Strip(s) == RStrip(LStrip(s))

\* str.replace(old, new) for a one-token old; new is a token sequence
RECURSIVE Replace(_, _, _)
Replace(s, old, new) ==
    IF s = <<>> THEN <<>>
    ELSE (IF Head(s) = old THEN new ELSE <<Head(s)>>) \o Replace(Tail(s), old, new)

\* ------------------------------------------------------------ HTTP
StatusCodes == {200, 404}

VARIABLES
    mode,          \* entry point called: "fetch", "paper" or "field"
    max_retries,   \* self.max_retries
    retry_delay,   \* self.retry_delay
    pc,            \* control location
    error,         \* the exception in flight or propagated ("" when none)
    fkind,         \* which call of _make_request runs: "direct", "listing", "detail", "full"
    furl,          \* its url argument
    trial,         \* loop variable of _make_request
    inflight,      \* HTTP requests sent and not yet answered
    attempts,      \* outcomes of the attempts of the current _make_request call
    sleeps,        \* durations of the time.sleep calls of the current _make_request call
    response,      \* Some(index of the attempt whose response is returned)
    url,           \* get_paper_from_url: the url argument as given by the caller
    page,          \* Some(detail page parsed by the current get_paper_from_url call)
    alt,           \* Some(sections of the full-text page parsed by that call)
    paper,         \* Some(ArxivPaper built, then returned, by that call)
    outcome,       \* how that call ended: "none" (running), "record", "error"
    max_nb_crawl,  \* self.max_nb_crawl
    dt_tags,       \* get_paper_list: the <dt> elements of the listing page
    dd_tags,       \* get_paper_list: the number of <dd> elements of the listing page
    idx,           \* get_paper_list: position of the zip iteration (0 before the loop)
    papers,        \* get_paper_list: the list papers
    results,       \* per <dt> visited: "nolink", or how get_paper_from_url ended
    fetches,       \* _make_request calls so far: of get_paper_list for the listing,
                   \* and of the current get_paper_from_url call for detail and full text
    calls,         \* the url arguments of the get_paper_from_url calls so far
    nreq           \* HTTP requests issued so far

fetchVars == <<fkind, furl, trial, inflight, attempts, sleeps, response>>
cfgVars == <<mode, max_retries, retry_delay, max_nb_crawl>>
paperVars == <<url, page, alt, paper, outcome>>
listVars == <<dt_tags, dd_tags, idx, papers, results>>
callerVars == <<paperVars, listVars>>
histVars == <<fetches, calls, nreq>>
vars == <<cfgVars, pc, error, fetchVars, paperVars, listVars, histVars>>

\* ------------------------------------------------- _make_request (36-47)
\* faulty variant: one iteration too many
InRange_Inclusive(t) == t <= max_retries

\* range(self.max_retries): the loop body runs for trial
InRange(t) == t < max_retries

\* line 41
IsSuccess(status) == status = 200

\* faulty variant: the last trial is never recognised
IsLastTrial_OffByOne(t) == t = max_retries

\* line 44
IsLastTrial(t) == t = max_retries - 1

\* faulty variant: the base delay is not added
SleepSeconds_NoBase(t) == t * retry_delay

\* line 46
SleepSeconds(t) == t * retry_delay + retry_delay

\* faulty variant: the attempt index is an attribute of the crawler, kept
\* from one _make_request call to the next
StartFetch_CarryTrial(kind, u) ==
    /\ fkind' = kind
    /\ furl' = u
    /\ trial' = trial
    /\ inflight' = 0
    /\ attempts' = <<>>
    /\ sleeps' = <<>>
    /\ response' = None
    /\ error' = ""
    /\ pc' = "request"

\* entry of _make_request(url)
StartFetch(kind, u) ==
    /\ fkind' = kind
    /\ furl' = u
    /\ trial' = 0
    /\ inflight' = 0
    /\ attempts' = <<>>
    /\ sleeps' = <<>>
    /\ response' = None
    /\ error' = ""
    /\ pc' = "request"

\* line 40: requests.get(url) is issued
SendRequest ==
    /\ pc = "request"
    /\ InRange(trial)
    /\ inflight' = inflight + 1
    /\ pc' = "wait"
    /\ nreq' = nreq + 1
    /\ UNCHANGED <<cfgVars, error, fkind, furl, trial, attempts, sleeps, response>>
    /\ UNCHANGED <<callerVars, fetches, calls>>

\* line 47: the loop is over without a return
RaiseNoResponse ==
    /\ pc = "request"
    /\ ~InRange(trial)
    /\ error' = "Exception"
    /\ pc' = "raised"
    /\ UNCHANGED <<cfgVars, fetchVars, callerVars, histVars>>

\* faulty variant: a response without success status is asked for again
\* under the same attempt index
RecvResponse_SameTrial ==
    /\ pc = "wait"
    /\ \E status \in StatusCodes :
        /\ attempts' = Append(attempts, [kind |-> "response", status |-> status])
        /\ inflight' = inflight - 1
        /\ IF IsSuccess(status)
           THEN /\ response' = Some(trial)
                /\ pc' = "returned"
                /\ trial' = trial
           ELSE /\ response' = response
                /\ pc' = "request"
                /\ trial' = trial
    /\ UNCHANGED <<cfgVars, error, fkind, furl, sleeps, callerVars, histVars>>

\* lines 40-42: requests.get returns a response
RecvResponse ==
    /\ pc = "wait"
    /\ \E status \in StatusCodes :
        /\ attempts' = Append(attempts, [kind |-> "response", status |-> status])
        /\ inflight' = inflight - 1
        /\ IF IsSuccess(status)
           THEN /\ response' = Some(trial)
                /\ pc' = "returned"
                /\ trial' = trial
           ELSE /\ response' = response
                /\ pc' = "request"
                /\ trial' = trial + 1
    /\ UNCHANGED <<cfgVars, error, fkind, furl, sleeps, callerVars, histVars>>

\* lines 43-46: requests.get raises ConnectionError
RecvConnectionError ==
    /\ pc = "wait"
    /\ attempts' = Append(attempts, [kind |-> "ConnectionError", status |-> 0])
    /\ inflight' = inflight - 1
    /\ IF IsLastTrial(trial)
       THEN /\ error' = "ConnectionError"
            /\ pc' = "raised"
            /\ UNCHANGED <<trial, sleeps>>
       ELSE /\ sleeps' = Append(sleeps, SleepSeconds(trial))
            /\ trial' = trial + 1
            /\ pc' = "request"
            /\ error' = error
    /\ UNCHANGED <<cfgVars, fkind, furl, response, callerVars, histVars>>

\* line 40: requests.get raises an exception that is no ConnectionError
\* (not caught by line 43, it leaves _make_request at once)
RecvOtherError ==
    /\ pc = "wait"
    /\ attempts' = Append(attempts, [kind |-> "OtherError", status |-> 0])
    /\ inflight' = inflight - 1
    /\ error' = "OtherError"
    /\ pc' = "raised"
    /\ UNCHANGED <<cfgVars, fkind, furl, trial, sleeps, response, callerVars, histVars>>


\* ------------------------------------------------- pages served by the site
Val(o) == CHOOSE x \in o : TRUE

Min(a, b) == IF a < b THEN a ELSE b

\* a detail page: the text of <h1 class="title">, of <td class="tablecell
\* comments"> and of <blockquote class="abstract"> (None when the element is
\* missing), and the <a> whose string is "HTML (experimental)": "none" when
\* missing, "nohref" when it has no href attribute, "href" otherwise.
\* The pages of a field crawl all have a comment cell and no bare "Title:"
\* heading; a single-paper crawl meets every combination.
TitleTexts ==
    {<<"Title:", " ", "A">>} \cup (IF mode = "field" THEN {} ELSE {<<"Title:">>})
CommentTexts == {<<" ", "c", "\n">>}
AbstractTexts == {<<"\n", "Abstract: ", "L1", "\n", "L2", "\n">>}

DetailPages ==
    [title_tag : {None} \cup {Some(t) : t \in TitleTexts},
     comment_tag : (IF mode = "field" THEN {} ELSE {None})
                       \cup {Some(t) : t \in CommentTexts},
     abstract_tag : {None} \cup {Some(t) : t \in AbstractTexts},
     html_link : {"none", "nohref", "href"}]

\* a full-text page: the id attribute of each <section>, in document order
\* (None: no id attribute); a field crawl meets one section id, a
\* single-paper crawl two
SectionIds == {None, Some(""), Some("S1")} \cup (IF mode = "field" THEN {} ELSE {Some("S2")})

SeqsUpTo(S, n) == UNION {[1..k -> S] : k \in 0..n}

AltPages == SeqsUpTo(SectionIds, MaxSections)

\* ------------------------------------------------- ArxivPaperCrawler
AbsMarker == "arxiv.org/abs/"

\* faulty variant: the scheme is put in front of the marker where it stands
normalize_url_Prefix(u) ==
    IF \E i \in 1..Len(u) : u[i] = AbsMarker
    THEN Replace(u, AbsMarker, <<"https://", AbsMarker>>)
    ELSE u

\* _normalize_url (84-89)
normalize_url(u) ==
    IF \E i \in 1..Len(u) : u[i] = AbsMarker
    THEN LET last == CHOOSE i \in 1..Len(u) :
                        /\ u[i] = AbsMarker
                        /\ \A j \in (i + 1)..Len(u) : u[j] # AbsMarker
         IN <<"https://", AbsMarker>> \o SubSeq(u, last + 1, Len(u))
    ELSE u

\* the result of a call: a value returned, or an exception raised
Returned(v) == [raised |-> FALSE, exc |-> "", val |-> v]
Raised(e) == [raised |-> TRUE, exc |-> e, val |-> <<>>]

\* faulty variant: a missing title element yields an empty title
extract_title_Lenient(pg) ==
    IF pg.title_tag = None
    THEN [raised |-> FALSE, exc |-> "", val |-> <<>>]
    ELSE [raised |-> FALSE, exc |-> "",
          val |-> Strip(Replace(Strip(Val(pg.title_tag)), "Title:", <<>>))]

\* _extract_title (91-98): soup.find gives None when the element is missing,
\* None.text raises AttributeError, which line 98 re-raises
extract_title(pg) ==
    IF pg.title_tag = None
    THEN Raised("AttributeError")
    ELSE Returned(Strip(Replace(Strip(Val(pg.title_tag)), "Title:", <<>>)))

\* _extract_comment (100-107)
extract_comment(pg) ==
    IF pg.comment_tag # None THEN Strip(Val(pg.comment_tag)) ELSE <<>>

\* get_paper_abstract (109-116): None.text raises AttributeError
get_paper_abstract(pg) ==
    IF pg.abstract_tag = None
    THEN Raised("AttributeError")
    ELSE Returned(Replace(Replace(Strip(Val(pg.abstract_tag)), "Abstract: ", <<>>),
                          "\n", <<" ">>))

\* faulty variant: a page without the anchor gets the html url of its paper
get_html_experimental_link_Guess(pg, u) ==
    IF pg.html_link = "nohref"
    THEN Raised("KeyError")
    ELSE Returned(<<"https://", "arxiv.org/html/">> \o SubSeq(u, 3, Len(u)))

\* get_html_experimental_link (118-121): html_link["href"] raises KeyError
\* when the anchor has no href; the href is the paper's HTML page
get_html_experimental_link(pg, u) ==
    CASE pg.html_link = "none" -> Returned(<<"Link not found">>)
      [] pg.html_link = "nohref" -> Raised("KeyError")
      [] OTHER -> Returned(<<"https://", "arxiv.org/html/">> \o SubSeq(u, 3, Len(u)))

\* faulty variant: the test "if section_id" is missing
get_paper_full_content_NoIdCheck(secs) ==
    {IF secs[k] = None THEN "None" ELSE Val(secs[k]) : k \in 1..Len(secs)}

\* get_paper_full_content (128-151): the keys of section_dict
get_paper_full_content(secs) ==
    {Val(secs[k]) : k \in {j \in 1..Len(secs) : secs[j] # None /\ Val(secs[j]) # ""}}

\* ArxivPaper(url=url, title=title, comment=comment) (68)
ArxivPaper(u, title, comment) ==
    [url |-> u, title |-> title, comment |-> comment,
     abstract |-> None, full_content |-> None]

\* ------------------------------------------------- callers of get_paper_from_url
\* crawl_paper (235-237): the record is returned to the caller
crawl_paper_return(p) ==
    /\ pc' = "done"
    /\ error' = ""
    /\ UNCHANGED <<idx, papers>>

\* crawl_paper (235-237): the exception propagates
crawl_paper_raise(e) ==
    /\ pc' = "failed"
    /\ error' = e
    /\ UNCHANGED <<idx, papers>>

\* faulty variant: the entry after a crawled one is passed over
on_paper_crawled_SkipNext(p) ==
    /\ papers' = Append(papers, p)
    /\ idx' = idx + 2
    /\ pc' = "loop"
    /\ error' = ""

\* get_paper_list (189-191): the record is appended, the loop goes on
on_paper_crawled(p) ==
    /\ papers' = Append(papers, p)
    /\ idx' = idx + 1
    /\ pc' = "loop"
    /\ error' = ""

\* faulty variant: the exception is not caught
on_crawl_failed_Abort(e) ==
    /\ papers' = papers
    /\ idx' = idx
    /\ pc' = "failed"
    /\ error' = e

\* get_paper_list (192-194): the exception is logged, the loop goes on
on_crawl_failed(e) ==
    /\ papers' = papers
    /\ idx' = idx + 1
    /\ pc' = "loop"
    /\ error' = ""

\* get_paper_from_url returns p (82)
ExtractReturn(p) ==
    /\ paper' = Some(p)
    /\ outcome' = "record"
    /\ IF mode = "paper"
       THEN crawl_paper_return(p) /\ results' = results
       ELSE on_paper_crawled(p) /\ results' = Append(results, "record")

\* an exception leaves get_paper_from_url
ExtractRaise(e) ==
    /\ paper' = None
    /\ outcome' = "error"
    /\ IF mode = "paper"
       THEN crawl_paper_raise(e) /\ results' = results
       ELSE on_crawl_failed(e) /\ results' = Append(results, "error")

\* get_paper_from_url (52-60): entry, up to the request of the detail page
CallGetPaperFromUrl(u) ==
    /\ url' = u
    /\ page' = None
    /\ alt' = None
    /\ paper' = None
    /\ outcome' = "none"
    /\ calls' = Append(calls, u)
    /\ fetches' = [fetches EXCEPT !.detail = 1, !.full = 0]
    /\ nreq' = nreq
    /\ StartFetch("detail", normalize_url(u))

\* the exception handler around get_paper_full_content (79-80)
full_content_failed(p) == ExtractReturn(p)

\* get_paper_from_url (61-82): the detail page arrived; parse it
DetailFetched ==
    /\ pc = "returned"
    /\ fkind = "detail"
    /\ \E pg \in DetailPages :
        LET title == extract_title(pg)
            comment == extract_comment(pg)
            abstract == get_paper_abstract(pg)
            html_link == get_html_experimental_link(pg, furl)
            p0 == ArxivPaper(normalize_url(url), title.val, comment)
            p1 == [p0 EXCEPT !.abstract = Some(abstract.val)]
        IN
        /\ page' = Some(pg)
        /\ CASE title.raised ->
                  ExtractRaise(title.exc) /\ UNCHANGED <<fetchVars, alt, fetches>>
             [] ~title.raised /\ abstract.raised ->
                  ExtractRaise(abstract.exc) /\ UNCHANGED <<fetchVars, alt, fetches>>
             [] ~title.raised /\ ~abstract.raised /\ html_link.raised ->
                  ExtractRaise(html_link.exc) /\ UNCHANGED <<fetchVars, alt, fetches>>
             [] OTHER ->
                  IF html_link.val # <<"Link not found">>
                  THEN /\ paper' = Some(p1)
                       /\ StartFetch("full", html_link.val)
                       /\ fetches' = [fetches EXCEPT !.full = @ + 1]
                       /\ UNCHANGED <<alt, outcome, idx, papers, results>>
                  ELSE ExtractReturn(p1) /\ UNCHANGED <<fetchVars, alt, fetches>>
    /\ UNCHANGED <<cfgVars, url, dt_tags, dd_tags, calls, nreq>>

\* get_paper_from_url (60): _make_request raised for the detail page
DetailFetchFailed ==
    /\ pc = "raised"
    /\ fkind = "detail"
    /\ ExtractRaise(error)
    /\ UNCHANGED <<cfgVars, fetchVars, url, page, alt, dt_tags, dd_tags, histVars>>

\* get_paper_full_content (125-151) returns; get_paper_from_url (78, 82)
FullFetched ==
    /\ pc = "returned"
    /\ fkind = "full"
    /\ \E secs \in AltPages :
        /\ alt' = Some(secs)
        /\ ExtractReturn([Val(paper) EXCEPT
                             !.full_content = Some(get_paper_full_content(secs))])
    /\ UNCHANGED <<cfgVars, fetchVars, url, page, dt_tags, dd_tags, histVars>>

\* get_paper_full_content: parsing the fetched page raises (126-149);
\* caught at 79
FullParseFailed ==
    /\ pc = "returned"
    /\ fkind = "full"
    /\ full_content_failed(Val(paper))
    /\ UNCHANGED <<cfgVars, fetchVars, url, page, alt, dt_tags, dd_tags, histVars>>

\* get_paper_full_content (125): _make_request raised; caught at 79
FullFetchFailed ==
    /\ pc = "raised"
    /\ fkind = "full"
    /\ full_content_failed(Val(paper))
    /\ UNCHANGED <<cfgVars, fetchVars, url, page, alt, dt_tags, dd_tags, histVars>>

\* ------------------------------------------------- ArxivCrawler.crawl_paper
InputUrls ==
    {<<"https://", AbsMarker, "1">>,
     <<"http://", "www.", AbsMarker, "1">>,
     <<"https://", "arxiv.org/pdf/", "1">>,
     <<"https://", "web.archive.org/", AbsMarker, "1", "?ref=", AbsMarker, "2">>}

\* crawl_paper (235-237)
CallCrawlPaper ==
    /\ pc = "idle"
    /\ mode = "paper"
    /\ \E u \in InputUrls : CallGetPaperFromUrl(u)
    /\ UNCHANGED <<cfgVars, listVars>>

\* ------------------------------------------------- ArxivListCrawler
FieldName == "cs.CL"

DigitTok == <<"1", "2", "3", "4", "5", "6">>

\* get_paper_list (166)
ListUrl(field, show) ==
    <<"https://", "arxiv.org/list/", field, "/pastweek?skip=0&show=", DigitTok[show]>>

\* the listing page: its <dt> elements and the number of its <dd> elements,
\* which is one less than, equal to, or one more than the number of <dt>.
\* a <dt> element: Some(href of its <a title="Abstract">), None when it has
\* no such anchor or the anchor has no href; the k-th <dt> links to paper k
UrlPath(k) == <<"/abs/", DigitTok[k]>>

DtTag(k) == {None, Some(UrlPath(k))}

ListingPages ==
    UNION {{d \in [1..n -> UNION {DtTag(k) : k \in 1..n}] :
               \A k \in 1..n : d[k] \in DtTag(k)} : n \in 0..MaxDt}

\* _extract_paper_url (199-206): "https://arxiv.org" + url_path, or None
extract_paper_url(dt_tag) ==
    IF dt_tag = None
    THEN None
    ELSE Some(<<"https://", AbsMarker>> \o Tail(Val(dt_tag)))

\* faulty variant: every <dt> is paired (zip_longest for zip)
ZipLen_Longest(dts, dds) == Len(dts)

\* zip(dt_tags, dd_tags) (179): the number of pairs
ZipLen(dts, dds) == Min(Len(dts), dds)

\* crawl_field (239-241), get_paper_list (163-167)
CallCrawlField ==
    /\ pc = "idle"
    /\ mode = "field"
    /\ StartFetch("listing", ListUrl(FieldName, max_nb_crawl))
    /\ fetches' = [fetches EXCEPT !.listing = @ + 1]
    /\ UNCHANGED <<cfgVars, callerVars, calls, nreq>>

\* get_paper_list (168-177): the listing page arrived
ListingFetched ==
    /\ pc = "returned"
    /\ fkind = "listing"
    /\ \E dts \in ListingPages :
       \E dds \in {n \in 0..(MaxDt + 1) : n - Len(dts) \in {-1, 0, 1}} :
        /\ dt_tags' = dts
        /\ dd_tags' = dds
    /\ papers' = <<>>
    /\ idx' = 1
    /\ pc' = "loop"
    /\ UNCHANGED <<cfgVars, error, fetchVars, paperVars, results, histVars>>

\* faulty variant: a failed listing fetch is treated as an empty listing
ListingFetchFailed_Swallow ==
    /\ pc = "raised"
    /\ fkind = "listing"
    /\ pc' = "done"
    /\ UNCHANGED <<cfgVars, error, fetchVars, callerVars, histVars>>

\* get_paper_list (167): _make_request raised; nothing catches it
ListingFetchFailed ==
    /\ pc = "raised"
    /\ fkind = "listing"
    /\ pc' = "failed"
    /\ UNCHANGED <<cfgVars, error, fetchVars, callerVars, histVars>>

\* faulty variant: a <dt> without link ends the loop (break for continue)
SkipEntry_Break ==
    /\ pc = "loop"
    /\ idx <= ZipLen(dt_tags, dd_tags)
    /\ extract_paper_url(dt_tags[idx]) = None
    /\ results' = Append(results, "nolink")
    /\ idx' = idx + 1
    /\ pc' = "done"
    /\ UNCHANGED <<cfgVars, error, fetchVars, paperVars, dt_tags, dd_tags, papers>>
    /\ UNCHANGED histVars

\* get_paper_list (184-186): the <dt> has no link, continue
SkipEntry ==
    /\ pc = "loop"
    /\ idx <= ZipLen(dt_tags, dd_tags)
    /\ extract_paper_url(dt_tags[idx]) = None
    /\ results' = Append(results, "nolink")
    /\ idx' = idx + 1
    /\ UNCHANGED <<cfgVars, pc, error, fetchVars, paperVars, dt_tags, dd_tags, papers>>
    /\ UNCHANGED histVars

\* get_paper_list (184-189): get_paper_from_url is called for the <dt>'s link
CrawlEntry ==
    /\ pc = "loop"
    /\ idx <= ZipLen(dt_tags, dd_tags)
    /\ extract_paper_url(dt_tags[idx]) # None
    /\ CallGetPaperFromUrl(Val(extract_paper_url(dt_tags[idx])))
    /\ UNCHANGED <<cfgVars, listVars>>

\* get_paper_list (196-197): the zip is exhausted, papers is returned
ReturnPapers ==
    /\ pc = "loop"
    /\ idx > ZipLen(dt_tags, dd_tags)
    /\ pc' = "done"
    /\ UNCHANGED <<cfgVars, error, fetchVars, callerVars, histVars>>

\* ------------------------------------------------- a bare _make_request call
DirectUrl == <<"https://", "arxiv.org/abs/", "1">>

CallMakeRequest ==
    /\ pc = "idle"
    /\ mode = "fetch"
    /\ StartFetch("direct", DirectUrl)
    /\ UNCHANGED <<cfgVars, callerVars, histVars>>

InitCfg(m, retries, delays) ==
    /\ mode = m
    /\ max_retries \in retries
    /\ retry_delay \in delays
    /\ max_nb_crawl = MaxCrawl
    /\ pc = "idle"
    /\ error = ""
    /\ fkind = "none"
    /\ furl = <<>>
    /\ trial = 0
    /\ inflight = 0
    /\ attempts = <<>>
    /\ sleeps = <<>>
    /\ response = None
    /\ url = <<>>
    /\ page = None
    /\ alt = None
    /\ paper = None
    /\ outcome = "none"
    /\ dt_tags = <<>>
    /\ dd_tags = 0
    /\ idx = 0
    /\ papers = <<>>
    /\ results = <<>>
    /\ fetches = [listing |-> 0, detail |-> 0, full |-> 0]
    /\ calls = <<>>
    /\ nreq = 0

InitFetch == InitCfg("fetch", 0..MaxRetries, 1..MaxDelay)

InitPaper == InitCfg("paper", 0..MaxCrawlRetries, {MaxDelay})

InitField == InitCfg("field", 0..MaxCrawlRetries, {MaxDelay})

Init == InitFetch \/ InitPaper \/ InitField

MakeRequest ==
    \/ SendRequest
    \/ RaiseNoResponse
    \/ RecvResponse
    \/ RecvConnectionError
    \/ RecvOtherError

GetPaperFromUrl ==
    \/ DetailFetched
    \/ DetailFetchFailed
    \/ FullFetched
    \/ FullParseFailed
    \/ FullFetchFailed

GetPaperList ==
    \/ ListingFetched
    \/ ListingFetchFailed
    \/ SkipEntry
    \/ CrawlEntry
    \/ ReturnPapers

Next ==
    \/ CallMakeRequest
    \/ CallCrawlPaper
    \/ CallCrawlField
    \/ MakeRequest
    \/ GetPaperFromUrl
    \/ GetPaperList

Spec == Init /\ [][Next]_vars

\* ------------------------------------------------------------ fetch claims
IsConn(a) == a.kind = "ConnectionError"
IsOk(a) == a.kind = "response" /\ a.status = 200
IsBadStatus(a) == a.kind = "response" /\ a.status # 200

\* the sleeps the retry policy prescribes for a sequence of attempt outcomes:
\* one of (i+1)*d after each connection failure at zero-based index i that is
\* not the final attempt, and none otherwise
BackoffOf(att) ==
    LET F[k \in 0..Len(att)] ==
            IF k = 0 THEN <<>>
            ELSE IF IsConn(att[k]) /\ (k - 1) # max_retries - 1
                 THEN Append(F[k - 1], k * retry_delay)
                 ELSE F[k - 1]
    IN F[Len(att)]

\* C2: a backoff sleep happens exactly after a connection failure at a
\* zero-based attempt index i that is not the final attempt, and lasts
\* (i+1)*d; none follows a non-success status or the final attempt.  With
\* max_retries = 3 and three connection failures the sleeps are d, 2d and the
\* connection error is raised.
C2_BackoffTiming ==
    /\ sleeps = BackoffOf(attempts)
    /\ (max_retries = 3 /\ Len(attempts) = 3 /\ \A k \in 1..3 : IsConn(attempts[k]))
         => /\ sleeps = <<retry_delay, 2 * retry_delay>>
            /\ pc = "raised" => error = "ConnectionError"
            /\ fkind = "direct" => pc = "raised"

C2_Witness ==
    /\ max_retries = 3
    /\ retry_delay = 2
    /\ Len(attempts) = 3
    /\ \A k \in 1..3 : IsConn(attempts[k])
    /\ sleeps = <<2, 4>>
    /\ pc = "raised"
    /\ error = "ConnectionError"

\* C4: when _make_request fails, the final attempt decides the error: a
\* connection failure on the final attempt raises the connection error; all
\* max_retries attempts completing with no success status and no connection
\* error on the final one raises the generic error, whatever the earlier
\* attempts were.
C4_TerminalErrorKind ==
    pc = "raised" =>
        /\ (Len(attempts) = max_retries /\ max_retries > 0
              /\ IsConn(attempts[max_retries]))
             => error = "ConnectionError"
        /\ (Len(attempts) = max_retries
              /\ \A k \in 1..Len(attempts) : ~IsOk(attempts[k])
              /\ (max_retries > 0 => IsBadStatus(attempts[max_retries])))
             => error = "Exception"
        /\ error = "ConnectionError"
             => (Len(attempts) = max_retries /\ max_retries > 0
                   /\ IsConn(attempts[max_retries]))
        /\ error = "Exception"
             => (Len(attempts) = max_retries
                   /\ \A k \in 1..Len(attempts) : ~IsOk(attempts[k]))

C4_Witness ==
    /\ pc = "raised"
    /\ fkind = "direct"
    /\ max_retries = 3
    /\ Len(attempts) = 3
    /\ IsConn(attempts[1])
    /\ IsBadStatus(attempts[2])
    /\ IsBadStatus(attempts[3])
    /\ error = "Exception"

\* C8: one call issues at most max_retries requests; it returns a response
\* exactly when an attempt returned a success status, the response is that of
\* the first such attempt, and nothing is requested or slept after it; with
\* max_retries = 0 nothing is requested and the call fails with the generic
\* error.
C8_BoundedAttempts ==
    /\ Len(attempts) + inflight <= max_retries
    /\ \A k \in 1..Len(attempts) :
          IsOk(attempts[k]) =>
              /\ k = Len(attempts)
              /\ inflight = 0
              /\ response = Some(k - 1)
              /\ Len(sleeps) <= k - 1
    /\ (response # None) <=> (\E k \in 1..Len(attempts) : IsOk(attempts[k]))
    /\ pc = "returned" => response # None
    /\ pc = "raised" => response = None
    /\ fkind = "direct" => (response # None => pc = "returned")
    /\ max_retries = 0 =>
          /\ attempts = <<>> /\ inflight = 0 /\ sleeps = <<>>
          /\ pc # "returned"
          /\ pc = "raised" => error = "Exception"

C8_Witness ==
    /\ fkind = "direct"
    /\ pc = "returned"
    /\ max_retries = 3
    /\ Len(attempts) = 3
    /\ IsConn(attempts[1])
    /\ IsBadStatus(attempts[2])
    /\ response = Some(2)

\* ------------------------------------------------------------ crawl claims
\* the url get_paper_from_url records for the k-th <dt>
EntryUrl(k) == <<"https://", AbsMarker, DigitTok[k]>>

\* the urls of the entries whose extraction ended with a record, in listing order
SucceededUrls(res) ==
    LET F[k \in 0..Len(res)] ==
            IF k = 0 THEN <<>>
            ELSE IF res[k] = "record" THEN Append(F[k - 1], EntryUrl(k)) ELSE F[k - 1]
    IN F[Len(res)]

CountOf(res, what) == Cardinality({k \in 1..Len(res) : res[k] = what})

\* the listing entries (<dt>, <dd> pairs) that have an extractable link
LinkEntries == {k \in 1..ZipLen(dt_tags, dd_tags) : dt_tags[k] # None}

\* C1: for a listing of K entries with extractable links of which N fail in
\* detail extraction, crawl_field does not raise and returns exactly the K-N
\* records of the entries that succeeded, in listing order, with no
\* placeholder for a failed entry.  (An entry is a <dt>, <dd> pair.)
C1_FailureIsolation ==
    mode = "field" =>
        /\ idx >= 1 => pc # "failed"
        /\ [k \in 1..Len(papers) |-> papers[k].url] = SucceededUrls(results)
        /\ pc = "done" =>
              /\ Len(results) = ZipLen(dt_tags, dd_tags)
              /\ \A k \in 1..Len(results) : (results[k] = "nolink") <=> (k \notin LinkEntries)
              /\ Len(papers) = Cardinality(LinkEntries) - CountOf(results, "error")

C1_Witness ==
    /\ mode = "field"
    /\ pc = "done"
    /\ Cardinality(LinkEntries) = 2
    /\ results = <<"error", "record">>
    /\ Len(papers) = 1
    /\ papers[1].url = EntryUrl(2)

\* C3: a failed listing fetch makes crawl_field fail with that error, with
\* no record and no detail fetch; no other fetch failure reaches the caller.
C3_ListingFailureFatal ==
    mode = "field" =>
        /\ (fkind = "listing" /\ error # "") => pc \in {"raised", "failed"}
        /\ pc = "failed" =>
              /\ fkind = "listing"
              /\ error \in {"ConnectionError", "Exception", "OtherError"}
              /\ response = None
              /\ papers = <<>>
              /\ results = <<>>
              /\ idx = 0
              /\ url = <<>>
              /\ page = None

C3_Witness ==
    /\ mode = "field"
    /\ pc = "failed"
    /\ fkind = "listing"
    /\ error = "ConnectionError"
    /\ Len(attempts) = 2

\* C5: a fetched detail page without a title element never yields a record:
\* get_paper_from_url raises; crawl_paper passes the error on, crawl_field
\* skips the item.
C5_MissingTitleFails ==
    \A pg \in page :
        pg.title_tag = None =>
            /\ outcome = "error"
            /\ paper = None
            /\ mode = "paper" => (pc = "failed" /\ error = "AttributeError")
            /\ mode = "field" =>
                  /\ pc # "failed"
                  /\ \A k \in 1..Len(papers) : papers[k].url # normalize_url(url)
                  /\ \E k \in 1..Len(results) :
                        results[k] = "error" /\ EntryUrl(k) = normalize_url(url)

C5_Witness ==
    /\ mode = "field"
    /\ pc = "done"
    /\ \E pg \in page :
          /\ pg.title_tag = None
          /\ pg.abstract_tag # None
          /\ pg.comment_tag # None
    /\ results = <<"record", "error">>

\* C6: once title, comment and abstract are extracted, no failure in
\* locating the "HTML (experimental)" link, fetching the alternate page or
\* parsing it fails the record: it is returned with full_content absent.
C6_EnrichmentNeverFails ==
    \A pg \in page :
        (pg.title_tag # None /\ pg.abstract_tag # None) => outcome # "error"

\* the section identifiers of a full-text page
DistinctIds(secs) == {id \in {"S1", "S2"} : \E k \in 1..Len(secs) : secs[k] = Some(id)}

\* C7: full_content of a returned record is absent when the detail page has
\* no "HTML (experimental)" link, the empty mapping when the alternate page
\* was fetched and has no section with an identifier, and otherwise has one
\* entry per distinct section identifier; absent and empty are different.
C7_FullContentOutcomes ==
    outcome = "record" =>
        \A pg \in page, p \in paper :
            /\ pg.html_link = "none" => (p.full_content = None /\ alt = None)
            /\ \A secs \in alt :
                  /\ p.full_content = Some(DistinctIds(secs))
                  /\ Cardinality(Val(p.full_content)) = Cardinality(DistinctIds(secs))
                  /\ (DistinctIds(secs) = {}) <=> (p.full_content = Some({}))
            /\ (p.full_content = None) <=> (alt = None)
            /\ p.full_content # None => pg.html_link = "href"

C7_Witness ==
    /\ outcome = "record"
    /\ mode = "paper"
    /\ pc = "done"
    /\ alt = Some(<<None, Some("")>>)
    /\ \E p \in paper : p.full_content = Some({}) /\ p.full_content # None

\* C9: a fetched detail page with a title and without an abstract block is
\* no error: get_paper_from_url returns a record without abstract.
C9_MissingAbstractTolerated ==
    \A pg \in page :
        (pg.title_tag # None /\ pg.abstract_tag = None /\ pg.html_link = "none")
            => outcome = "record"

\* C10: crawl_field attempts detail extraction for at most max_nb_crawl
\* entries and returns at most max_nb_crawl records.
C10_MaxCountBound ==
    mode = "field" =>
        /\ Len(papers) <= max_nb_crawl
        /\ CountOf(results, "record") + CountOf(results, "error") <= max_nb_crawl

\* the get_paper_from_url calls made for the first n <dt> of the listing
CallsFor(n) ==
    LET F[k \in 0..n] ==
            IF k = 0 THEN <<>>
            ELSE IF dt_tags[k] = None THEN F[k - 1] ELSE Append(F[k - 1], EntryUrl(k))
    IN F[n]

\* C11: a listing entry whose <dt> has no "Abstract" link is skipped without
\* raising: get_paper_from_url is never called for it, and the entries after
\* it are still processed, in listing order, up to the end of the zip.
C11_NoLinkSkipped ==
    mode = "field" =>
        /\ \A k \in 1..Len(results) :
              dt_tags[k] = None =>
                  /\ results[k] = "nolink"
                  /\ pc # "failed"
                  /\ \A c \in 1..Len(calls) : calls[c] # EntryUrl(k)
        /\ \/ calls = CallsFor(Len(results))
           \/ /\ Len(results) < Len(dt_tags)
              /\ calls = CallsFor(Len(results) + 1)
        /\ pc = "done" =>
              /\ Len(results) = Min(Len(dt_tags), dd_tags)
              /\ calls = CallsFor(Min(Len(dt_tags), dd_tags))

C11_Witness ==
    /\ mode = "field"
    /\ pc = "done"
    /\ results = <<"nolink", "record">>
    /\ dt_tags[1] = None
    /\ calls = <<EntryUrl(2)>>

\* C12: every record returned has a title that is non-empty after trimming;
\* a detail page whose title element gives the empty string once "Title:"
\* is removed yields no record.
C12_TitleNonEmpty ==
    /\ outcome = "record" => \A p \in paper : Strip(p.title) # <<>>
    /\ \A k \in 1..Len(papers) : Strip(papers[k].title) # <<>>
    /\ \A pg \in page :
          (pg.title_tag = Some(<<"Title:">>) /\ pc \in {"done", "failed", "loop"})
              => outcome = "error"

\* C13: get_paper_from_url on a fetched detail page that has a title and an
\* abstract and no comment cell raises nothing and returns a record whose
\* comment is the empty string.
C13_MissingCommentTolerated ==
    \A pg \in page :
        (pg.title_tag # None /\ pg.abstract_tag # None /\ pg.comment_tag = None)
            => /\ outcome # "error"
               /\ \A p \in paper : p.comment = <<>>

\* a url that matches the abstract-page pattern, and the canonical form
IsAbsUrl(u) == \E i \in 1..Len(u) : u[i] = AbsMarker

IsCanonical(u) ==
    /\ Len(u) >= 2
    /\ u[1] = "https://"
    /\ u[2] = AbsMarker
    /\ \A i \in 3..Len(u) : u[i] # AbsMarker

\* C14: _normalize_url is idempotent on the urls that contain
\* "arxiv.org/abs/": it gives the canonical https://arxiv.org/abs/<id>, on
\* which it changes nothing; the detail page is requested at the normalized
\* input url, and that is the url of the record returned.
C14_NormalizeIdempotent ==
    /\ \A u \in InputUrls \cup {url, furl} :
          IsAbsUrl(u) =>
              /\ normalize_url(normalize_url(u)) = normalize_url(u)
              /\ IsCanonical(normalize_url(u))
    /\ fkind = "detail" =>
          /\ furl = normalize_url(url)
          /\ IsAbsUrl(url) => (IsCanonical(furl) /\ normalize_url(furl) = furl)
          /\ ~IsAbsUrl(url) => furl = url
    /\ \A p \in paper :
          /\ p.url = normalize_url(url)
          /\ fkind = "detail" => p.url = furl
          /\ IsAbsUrl(url) => IsCanonical(p.url)
    /\ \A k \in 1..Len(papers) : papers[k].url = normalize_url(papers[k].url)

C14_Witness ==
    /\ mode = "paper"
    /\ pc = "done"
    /\ outcome = "record"
    /\ fkind = "detail"
    /\ url = <<"https://", "web.archive.org/", AbsMarker, "1", "?ref=", AbsMarker, "2">>
    /\ furl = <<"https://", AbsMarker, "2">>
    /\ \E p \in paper : p.url = furl /\ p.url # url

\* a _make_request call is under way or has just ended
InFetch == pc \in {"request", "wait", "returned", "raised"}

\* C15: crawl_field goes idle -> listing fetch -> detail extractions -> done.
\* The listing is fetched by one _make_request call, which has returned
\* before get_paper_from_url is first called; entries are taken in listing
\* order, every earlier entry having ended (record, error or skip) while
\* entry idx is being extracted; never more than one request is in flight.
C15_SequentialCrawl ==
    mode = "field" =>
        /\ inflight \in {0, 1}
        /\ inflight = 1 <=> pc = "wait"
        /\ fetches.listing = (IF pc = "idle" THEN 0 ELSE 1)
        /\ idx = 0 =>
              /\ pc \in {"idle", "failed"} \/ (InFetch /\ fkind = "listing")
              /\ calls = <<>> /\ results = <<>> /\ papers = <<>>
              /\ fetches.detail = 0 /\ fetches.full = 0
        /\ idx >= 1 =>
              /\ pc \in {"loop", "done"} \/ (InFetch /\ fkind \in {"detail", "full"})
              /\ idx <= ZipLen(dt_tags, dd_tags) + 1
        /\ pc = "done" => idx = ZipLen(dt_tags, dd_tags) + 1
        /\ pc \in {"loop", "done"} /\ idx >= 1 => Len(results) = idx - 1
        /\ (InFetch /\ fkind \in {"detail", "full"}) =>
              /\ idx \in 1..ZipLen(dt_tags, dd_tags)
              /\ Len(results) = idx - 1
              /\ url = EntryUrl(idx)
              /\ calls # <<>> /\ calls[Len(calls)] = EntryUrl(idx)
              /\ \A c \in 1..(Len(calls) - 1) :
                    \E k \in 1..(idx - 1) : calls[c] = EntryUrl(k) /\ results[k] # "nolink"
        /\ \A c, d \in 1..Len(calls) :
              c < d => \E k, l \in 1..Len(dt_tags) :
                          k < l /\ calls[c] = EntryUrl(k) /\ calls[d] = EntryUrl(l)

C15_Witness ==
    /\ mode = "field"
    /\ pc = "wait"
    /\ fkind = "detail"
    /\ inflight = 1
    /\ idx = 2
    /\ results = <<"record">>
    /\ calls = <<EntryUrl(1), EntryUrl(2)>>
    /\ fetches.listing = 1

\* C16: within one get_paper_from_url call the full-text page is requested
\* by at most one _make_request call, which starts only after the detail
\* page was fetched and its title, comment and abstract extracted, and only
\* when the page has an "HTML (experimental)" link; without the link, or
\* when the detail fetch or the title extraction failed, none starts.  A
\* call makes at most two _make_request calls.
C16_FullTextFetchedOnce ==
    mode \in {"paper", "field"} =>
        /\ fetches.detail \in {0, 1}
        /\ fetches.full \in {0, 1}
        /\ fetches.detail = 0 => fetches.full = 0
        /\ fetches.detail + fetches.full <= 2
        /\ fkind = "full" <=> fetches.full = 1
        /\ page = None => (fetches.full = 0 /\ alt = None)
        /\ (fkind = "detail" /\ pc \in {"request", "wait", "raised"}) => page = None
        /\ \A pg \in page :
              /\ (pg.html_link # "href" \/ pg.title_tag = None \/ pg.abstract_tag = None)
                    => (fetches.full = 0 /\ alt = None /\ fkind = "detail")
              /\ fetches.full = 1 =>
                    /\ pg.title_tag # None /\ pg.abstract_tag # None
                    /\ pg.html_link = "href"
                    /\ \A p \in paper :
                          /\ p.title = extract_title(pg).val
                          /\ p.comment = extract_comment(pg)
                          /\ p.abstract = Some(get_paper_abstract(pg).val)
                    /\ outcome = "none" => paper # None

C16_Witness ==
    /\ mode = "field"
    /\ pc = "wait"
    /\ fkind = "full"
    /\ idx = 2
    /\ fetches = [listing |-> 1, detail |-> 1, full |-> 1]
    /\ \E pg \in page : pg.html_link = "href"

\* C17: the attempt index and the backoff belong to one _make_request call:
\* whatever earlier calls of the run consumed, a call counts its attempts
\* from 0, may issue max_retries requests before it gives up, and sleeps
\* retry_delay after a connection failure of its first attempt.
C17_PerFetchRetryBudget ==
    /\ pc \in {"request", "wait"} => trial = Len(attempts)
    /\ (pc = "request" /\ Len(attempts) < max_retries) => ENABLED SendRequest
    /\ (pc = "raised" /\ error \in {"Exception", "ConnectionError"})
          => Len(attempts) = max_retries
    /\ (attempts # <<>> /\ IsConn(attempts[1]) /\ max_retries > 1)
          => (sleeps # <<>> /\ sleeps[1] = retry_delay)
    /\ \A k \in 1..Len(sleeps) : sleeps[k] <= max_retries * retry_delay

C17_Witness ==
    /\ mode = "field"
    /\ max_retries = 2
    /\ idx = 2
    /\ results = <<"error">>
    /\ nreq = 6
    /\ fkind = "detail"
    /\ pc = "returned"
    /\ Len(attempts) = 2
    /\ IsConn(attempts[1])
    /\ sleeps = <<retry_delay>>

\* C18: get_paper_list pairs the <dt> with the <dd> by position and handles
\* the first min(#dt, #dd) <dt> only: a <dt> beyond the last <dd> is never
\* passed to get_paper_from_url and leaves neither a record nor a skip,
\* even when it has a valid link.
C18_SurplusLocatorsDropped ==
    mode = "field" =>
        LET n == Min(Len(dt_tags), dd_tags) IN
        /\ Len(results) <= n
        /\ idx <= n + 1
        /\ pc = "done" => Len(results) = n
        /\ \A k \in (n + 1)..Len(dt_tags) :
              /\ \A c \in 1..Len(calls) : calls[c] # EntryUrl(k)
              /\ \A j \in 1..Len(papers) : papers[j].url # EntryUrl(k)
              /\ url # EntryUrl(k)
        /\ Len(calls) <= n
        /\ Len(papers) <= n

C18_Witness ==
    /\ mode = "field"
    /\ pc = "done"
    /\ Len(dt_tags) = 2
    /\ dd_tags = 1
    /\ dt_tags[2] # None
    /\ results = <<"record">>
    /\ calls = <<EntryUrl(1)>>

\* every step that is possible is eventually taken: the interpreter runs
\* the sequential code on, and every requests.get ends with a response or
\* an exception
FairSpec == Init /\ [][Next]_vars /\ WF_vars(Next)

\* the _make_request calls a crawl_field run has made so far
FetchesStarted == fetches.listing + 2 * Len(calls)

\* C19: for every listing and every outcome of every HTTP attempt,
\* crawl_field ends, by returning the records or by the failure of the
\* listing fetch, and until then issues at most max_retries * (1 + 2K)
\* requests, K being the number of entries with a link.
C19_TerminatesWithinBudget ==
    /\ [](mode = "field" =>
            /\ nreq <= max_retries * FetchesStarted
            /\ idx = 0 => nreq <= max_retries
            /\ idx >= 1 => /\ Len(calls) <= Cardinality(LinkEntries)
                           /\ nreq <= max_retries * (1 + 2 * Cardinality(LinkEntries)))
    /\ (mode = "field" => <>(pc \in {"done", "failed"}))

C19_Witness ==
    /\ mode = "field"
    /\ pc = "done"
    /\ max_retries = 2
    /\ Cardinality(LinkEntries) = 2
    /\ nreq = max_retries * (1 + 2 * Cardinality(LinkEntries))
    /\ results = <<"record", "record">>

====
